---- MODULE Spec2Model ----
(***************************************************************************)
(* Jukebox playback device of navidrome (core/playback): the               *)
(* SpeakerPlaybackDevice transport commands, the play queue they drive and *)
(* the mpv player they talk to over its IPC connection.                    *)
(***************************************************************************)
EXTENDS Integers, Sequences, FiniteSets, TLC

(***************************************************************************)
(* Bounds of the model.                                                    *)
(***************************************************************************)
\* longest queue the commands are allowed to build
MaxQueue == 3
\* longest id list handed to Set and Add
MaxIds == 2
\* the gain grid: gains are the float32 values nearest to k/GridSteps
GridSteps == 1000

(***************************************************************************)
(* Program constants.                                                      *)
(***************************************************************************)
\* "start=10" of the loadfile command
StartOffset == 10
\* the constant 0 handed to loadfile after "replace"
LoadfileIndex == 0
\* Position gives up when retryCount > 5
MaxRetries == 5
\* vol := int(gain * 100)
VolumeScale == 100
\* significand width of a float32 (gain float32)
F32Bits == 24

Nil == "nil"
None == [ID |-> "", Path |-> ""]

(***************************************************************************)
(* The catalog (ParentPlaybackServer.GetMediaFile): ids it resolves, and   *)
(* one it does not.                                                        *)
(***************************************************************************)
KnownIds == {"a", "b"}
UnknownIds == {"x"}
Ids == KnownIds \cup UnknownIds

PathOf(id) == IF id = "a" THEN "/music/a.flac" ELSE "/music/b.flac"

GetMediaFile(id) ==
    IF id \in KnownIds
    THEN [mf |-> [ID |-> id, Path |-> PathOf(id)], err |-> Nil]
    ELSE [mf |-> None, err |-> "data not found"]

(***************************************************************************)
(* float32 arithmetic of SetGain.  A float32 is sig * 2^(-scale) with      *)
(* sig < 2^F32Bits; every step rounds to nearest, ties to even.            *)
(***************************************************************************)
RECURSIVE BitLen(_)
BitLen(n) == IF n = 0 THEN 0 ELSE 1 + BitLen(n \div 2)

\* n / 2^t rounded to nearest, ties to even
RoundShift(n, t) ==
    IF t <= 0 THEN n
    ELSE LET q == n \div (2 ^ t)
             r == n % (2 ^ t)
             half == 2 ^ (t - 1)
         IN IF r > half \/ (r = half /\ q % 2 = 1) THEN q + 1 ELSE q

\* doublings needed to bring num/den into [1, 2)
RECURSIVE Normalise(_, _, _)
Normalise(num, den, shifts) ==
    IF num >= den THEN [num |-> num, shifts |-> shifts]
    ELSE Normalise(2 * num, den, shifts + 1)

\* long division: the next `bits` bits of rem/den appended to sig
RECURSIVE DivBits(_, _, _, _)
DivBits(sig, rem, den, bits) ==
    IF bits = 0 THEN [sig |-> sig, rem |-> rem]
    ELSE LET r2 == 2 * rem
             bit == IF r2 >= den THEN 1 ELSE 0
         IN DivBits(2 * sig + bit, r2 - bit * den, den, bits - 1)

\* the float32 nearest to k/GridSteps, 0 <= k <= GridSteps
F32OfGrid(k) ==
    IF k = 0 THEN [sig |-> 0, scale |-> 0]
    ELSE LET n == Normalise(k, GridSteps, 0)
             d == DivBits(1, n.num - GridSteps, GridSteps, F32Bits - 1)
             up == 2 * d.rem > GridSteps
                   \/ (2 * d.rem = GridSteps /\ d.sig % 2 = 1)
         IN [sig |-> IF up THEN d.sig + 1 ELSE d.sig,
             scale |-> n.shifts + F32Bits - 1]

\* gain * 100 in float32
F32Scale(f) ==
    LET p == f.sig * VolumeScale
        t == BitLen(p) - F32Bits
    IN IF t <= 0 THEN [sig |-> p, scale |-> f.scale]
       ELSE [sig |-> RoundShift(p, t), scale |-> f.scale - t]

\* int(f): truncation towards zero
F32ToInt(f) ==
    IF f.scale <= 0 THEN f.sig * (2 ^ (0 - f.scale))
    ELSE IF f.scale >= 31 THEN 0
    ELSE f.sig \div (2 ^ f.scale)

(***************************************************************************)
(* The mpv player behind the IPC connection (MpvConn), seen through the    *)
(* get / set / call primitives the device uses.  A player that has exited  *)
(* answers every request with an error.                                    *)
(***************************************************************************)
\* seconds of a track
TrackLen == 16

\* time-pos is kept in milliseconds
Millis(seconds) == seconds * 1000

\* MpvConn.Set(prop, value)
MpvSet(m, prop, value) ==
    IF ~m.alive THEN [mpv |-> m, err |-> "trying to send command on closed mpv client"]
    ELSE [mpv |-> [m EXCEPT ![prop] = value], err |-> Nil]

\* MpvConn.Get(prop): the value with its dynamic type; time-pos has no value
\* while no file is loaded
MpvGet(m, prop) ==
    IF ~m.alive
    THEN [value |-> Nil, type |-> "nil", err |-> "trying to send command on closed mpv client"]
    ELSE IF prop = "time-pos" /\ m.loaded = ""
         THEN [value |-> Nil, type |-> "nil", err |-> "mpv error: property unavailable"]
    ELSE IF prop = "time-pos" THEN [value |-> m.timepos, type |-> "float64", err |-> Nil]
    ELSE IF prop = "pause" THEN [value |-> m.pause, type |-> "bool", err |-> Nil]
    ELSE [value |-> m[prop], type |-> "float64", err |-> Nil]

\* MpvConn.Call("loadfile", path, "replace", 0, "start=10")
MpvLoadfile(m, path, start) ==
    IF ~m.alive THEN m
    ELSE [m EXCEPT !.loaded = path, !.timepos = Millis(start)]

\* MpvConn.Call("seek", offset): relative seek in the loaded file; a seek
\* to the end of the file ends it, and the player idles again
MpvSeek(m, offset) ==
    IF ~m.alive \/ m.loaded = "" THEN m
    ELSE IF m.timepos + Millis(offset) >= Millis(TrackLen)
         THEN [m EXCEPT !.loaded = "", !.timepos = 0]
    ELSE [m EXCEPT !.timepos = IF @ + Millis(offset) < 0 THEN 0 ELSE @ + Millis(offset)]

(***************************************************************************)
(* Queue (PlaybackQueue): an ordered sequence of tracks and a cursor.      *)
(* Index is zero-based as in the device code; Items is a TLA+ sequence.    *)
(* Where the queue's contract leaves the cursor open, the new cursor is    *)
(* the parameter c, any cursor the queue invariant allows.                 *)
(***************************************************************************)
NewQueue == [Items |-> <<>>, Index |-> -1]

Size(q) == Len(q.Items)

IsEmpty(q) == Len(q.Items) < 1

\* the cursors the queue invariant allows for a sequence of items
Cursors(items) == IF items = <<>> THEN {-1} ELSE 0 .. (Len(items) - 1)

\* Current() -> track | none
Current(q) ==
    IF q.Index > -1 /\ q.Index < Len(q.Items) THEN q.Items[q.Index + 1] ELSE None

QueueAdd(q, tracks) ==
    [Items |-> q.Items \o tracks,
     Index |-> IF q.Index = -1 /\ Len(q.Items \o tracks) > 0 THEN 0 ELSE q.Index]

QueueClear(q) == NewQueue

\* the items without the one at zero-based position i
RemoveAt(items, i) ==
    [k \in 1 .. (Len(items) - 1) |-> IF k <= i THEN items[k] ELSE items[k + 1]]

\* Remove(i): rejected outside [0, len); the cursor afterwards is c
QueueRemove(q, i, c) ==
    IF i > -1 /\ i < Len(q.Items) /\ c \in Cursors(RemoveAt(q.Items, i))
    THEN [Items |-> RemoveAt(q.Items, i), Index |-> c]
    ELSE q

\* the permutations of 1..n
Perms(n) == {f \in [1 .. n -> 1 .. n] : \A i, j \in 1 .. n : f[i] = f[j] => i = j}

\* Shuffle(): the items permuted by perm; the cursor keeps its element
\* (keep) or its position
QueueShuffle(q, perm, keep) ==
    IF Len(q.Items) <= 1 \/ perm \notin Perms(Len(q.Items)) THEN q
    ELSE [Items |-> [k \in 1 .. Len(q.Items) |-> q.Items[perm[k]]],
          Index |-> IF keep /\ q.Index > -1 /\ q.Index < Len(q.Items)
                    THEN (CHOOSE k \in 1 .. Len(q.Items) : perm[k] = q.Index + 1) - 1
                    ELSE q.Index]

\* SetIndex(i): i when it is a position of the queue, else the cursor c
SetIndex(q, i, c) ==
    IF i > -1 /\ i < Len(q.Items) THEN [q EXCEPT !.Index = i]
    ELSE IF c \in Cursors(q.Items) THEN [q EXCEPT !.Index = c]
    ELSE q

(***************************************************************************)
(* SpeakerPlaybackDevice.  A handler takes the device and what it reaches  *)
(* (pd: PlaybackQueue, Gain, the player mpv, startTrackSwitcher, and the     *)
(* logs of the player commands issued and of the catalog lookups made) and *)
(* gives the device afterwards with the DeviceStatus and error it returns. *)
(***************************************************************************)
Issue(pd, name, args) == [pd EXCEPT !.calls = Append(@, [name |-> name, args |-> args])]

\* faulty variant: one retry more before giving up
PositionTryOnceMore(r, retryCount) ==
    IF r.err = "mpv error: property unavailable"
    THEN IF retryCount + 1 > MaxRetries + 1
         THEN [done |-> TRUE, pos |-> 0, retryCount |-> retryCount + 1, sleep |-> 0]
         ELSE [done |-> FALSE, pos |-> 0, retryCount |-> retryCount + 1,
               sleep |-> retryCount + 1]
    ELSE IF r.err # Nil
         THEN [done |-> TRUE, pos |-> 0, retryCount |-> retryCount, sleep |-> 0]
    ELSE IF r.type # "float64"
         THEN [done |-> TRUE, pos |-> 0, retryCount |-> retryCount, sleep |-> 0]
    ELSE [done |-> TRUE, pos |-> r.value \div 1000, retryCount |-> retryCount, sleep |-> 0]

\* one pass of the loop of Position over the reply r to Get("time-pos"):
\* whether Position returns, what it returns, retryCount afterwards and the
\* milliseconds slept before the next pass
PositionTry(r, retryCount) ==
    IF r.err = "mpv error: property unavailable"
    THEN IF retryCount + 1 > MaxRetries
         THEN [done |-> TRUE, pos |-> 0, retryCount |-> retryCount + 1, sleep |-> 0]
         ELSE [done |-> FALSE, pos |-> 0, retryCount |-> retryCount + 1,
               sleep |-> retryCount + 1]
    ELSE IF r.err # Nil
         THEN [done |-> TRUE, pos |-> 0, retryCount |-> retryCount, sleep |-> 0]
    ELSE IF r.type # "float64"
         THEN [done |-> TRUE, pos |-> 0, retryCount |-> retryCount, sleep |-> 0]
    ELSE [done |-> TRUE, pos |-> r.value \div 1000, retryCount |-> retryCount, sleep |-> 0]

\* the retry loop of Position over the player's answers to Get("time-pos")
RECURSIVE PositionRetry(_, _)
PositionRetry(replies, retryCount) ==
    LET t == PositionTry(replies[retryCount + 1], retryCount)
    IN IF t.done THEN t.pos ELSE PositionRetry(replies, t.retryCount)

Position(pd) ==
    PositionRetry([n \in 1 .. (MaxRetries + 1) |-> MpvGet(pd.mpv, "time-pos")], 0)

isPlaying(pd) ==
    LET pausing == MpvGet(pd.mpv, "pause")
    IN IF pausing.err # Nil THEN FALSE
       ELSE IF pausing.type # "bool" THEN FALSE
       ELSE ~pausing.value

getStatus(pd) ==
    [CurrentIndex |-> pd.PlaybackQueue.Index,
     Playing |-> isPlaying(pd),
     Gain |-> pd.Gain,
     Position |-> Position(pd)]

\* DeviceStatus{}
ZeroStatus == [CurrentIndex |-> 0, Playing |-> FALSE, Gain |-> 0, Position |-> 0]

Return(pd, err) == [pd |-> pd, status |-> getStatus(pd), err |-> err]

\* faulty variant: the cursor is assigned without SetIndex
switchActiveTrackByIndexUnchecked(pd, index, offset, c) ==
    LET q1 == [pd.PlaybackQueue EXCEPT !.Index = index]
        currentTrack == Current(q1)
        pd1 == [pd EXCEPT !.PlaybackQueue = q1]
    IN IF currentTrack = None
       THEN [pd |-> pd1, err |-> "could not get current track"]
       ELSE [pd |-> [Issue(pd1, "loadfile",
                           <<currentTrack.Path, "replace", LoadfileIndex, StartOffset>>)
                       EXCEPT !.mpv = MpvLoadfile(@, currentTrack.Path, StartOffset)],
             err |-> Nil]

switchActiveTrackByIndex(pd, index, offset, c) ==
    LET q1 == SetIndex(pd.PlaybackQueue, index, c)
        currentTrack == Current(q1)
        pd1 == [pd EXCEPT !.PlaybackQueue = q1]
    IN IF currentTrack = None
       THEN [pd |-> pd1, err |-> "could not get current track"]
       ELSE [pd |-> [Issue(pd1, "loadfile",
                           <<currentTrack.Path, "replace", LoadfileIndex, StartOffset>>)
                       EXCEPT !.mpv = MpvLoadfile(@, currentTrack.Path, StartOffset)],
             err |-> Nil]

Stop(pd) ==
    LET s == MpvSet(pd.mpv, "pause", TRUE)
    IN Return([Issue(pd, "set", <<"pause", TRUE>>) EXCEPT !.mpv = s.mpv], Nil)

\* faulty variant: the track is loaded but pause is left as it is
StartKeepsPause(pd, c) ==
    LET pd0 == [pd EXCEPT !.startTrackSwitcher = TRUE]
    IN IF ~IsEmpty(pd0.PlaybackQueue)
       THEN LET sw == switchActiveTrackByIndex(pd0, pd0.PlaybackQueue.Index, 0, c)
            IN Return(sw.pd, sw.err)
       ELSE Return(pd0, Nil)

Start(pd, c) ==
    LET pd0 == [pd EXCEPT !.startTrackSwitcher = TRUE]
    IN IF ~IsEmpty(pd0.PlaybackQueue)
       THEN LET sw == switchActiveTrackByIndex(pd0, pd0.PlaybackQueue.Index, 0, c)
                s == MpvSet(sw.pd.mpv, "pause", FALSE)
            IN IF sw.err # Nil THEN Return(sw.pd, sw.err)
               ELSE Return([Issue(sw.pd, "set", <<"pause", FALSE>>)
                              EXCEPT !.mpv = s.mpv], Nil)
       ELSE Return(pd0, Nil)

\* faulty variant: the offset is applied after the switch
SkipSwitchThenSeek(pd, index, offset, c) ==
    IF index # pd.PlaybackQueue.Index
    THEN LET sw == switchActiveTrackByIndex(pd, index, offset, c).pd
         IN Return([Issue(sw, "seek", <<offset>>) EXCEPT !.mpv = MpvSeek(@, offset)], Nil)
    ELSE Return([Issue(pd, "seek", <<offset>>) EXCEPT !.mpv = MpvSeek(@, offset)], Nil)

\* faulty variant: the current track is reloaded instead of sought
SkipAlwaysSwitches(pd, index, offset, c) ==
    Return(switchActiveTrackByIndex(pd, index, offset, c).pd, Nil)

Skip(pd, index, offset, c) ==
    IF index # pd.PlaybackQueue.Index
    THEN Return(switchActiveTrackByIndex(pd, index, offset, c).pd, Nil)
    ELSE Return([Issue(pd, "seek", <<offset>>) EXCEPT !.mpv = MpvSeek(@, offset)], Nil)

\* the loop of Add over ids: the tracks found, the ids looked up, and the
\* error that ended it
RECURSIVE Resolve(_, _, _)
Resolve(ids, items, looked) ==
    IF ids = <<>> THEN [items |-> items, looked |-> looked, err |-> Nil]
    ELSE LET r == GetMediaFile(Head(ids))
         IN IF r.err # Nil
            THEN [items |-> items, looked |-> Append(looked, Head(ids)), err |-> r.err]
            ELSE Resolve(Tail(ids), Append(items, r.mf), Append(looked, Head(ids)))

\* faulty variant: each track found replaces the batch instead of joining it
AddKeepsLast(pd, ids) ==
    IF Len(ids) < 1 THEN Return(pd, Nil)
    ELSE LET r == Resolve(ids, <<>>, <<>>)
             pd1 == [pd EXCEPT !.lookups = @ \o r.looked]
         IN IF r.err # Nil THEN [pd |-> pd1, status |-> ZeroStatus, err |-> r.err]
            ELSE Return([pd1 EXCEPT !.PlaybackQueue =
                             QueueAdd(@, <<r.items[Len(r.items)]>>)], Nil)

\* faulty variant: the tracks found before the failing id are queued
AddPartial(pd, ids) ==
    IF Len(ids) < 1 THEN Return(pd, Nil)
    ELSE LET r == Resolve(ids, <<>>, <<>>)
             pd1 == [pd EXCEPT !.lookups = @ \o r.looked,
                               !.PlaybackQueue = QueueAdd(@, r.items)]
         IN IF r.err # Nil THEN [pd |-> pd1, status |-> ZeroStatus, err |-> r.err]
            ELSE Return(pd1, Nil)

Add(pd, ids) ==
    IF Len(ids) < 1 THEN Return(pd, Nil)
    ELSE LET r == Resolve(ids, <<>>, <<>>)
             pd1 == [pd EXCEPT !.lookups = @ \o r.looked]
         IN IF r.err # Nil THEN [pd |-> pd1, status |-> ZeroStatus, err |-> r.err]
            ELSE Return([pd1 EXCEPT !.PlaybackQueue = QueueAdd(@, r.items)], Nil)

Clear(pd) ==
    Return([Stop(pd).pd EXCEPT !.PlaybackQueue = QueueClear(@)], Nil)

\* faulty variant: the queue is not cleared first
SetWithoutClear(pd, ids) == Add(Stop(pd).pd, ids)

Set(pd, ids) ==
    LET cl == Clear(pd)
    IN IF cl.err # Nil THEN Return(cl.pd, cl.err)
       ELSE Add(cl.pd, ids)

Remove(pd, index, c) ==
    LET pd1 == IF isPlaying(pd) /\ pd.PlaybackQueue.Index = index THEN Stop(pd).pd ELSE pd
    IN IF index > -1 /\ index < Size(pd1.PlaybackQueue)
       THEN Return([pd1 EXCEPT !.PlaybackQueue = QueueRemove(@, index, c)], Nil)
       ELSE Return(pd1, Nil)

\* faulty variant: the wrong queue method is called
ShuffleClears(pd, perm, keep) ==
    IF Size(pd.PlaybackQueue) > 1
    THEN Return([pd EXCEPT !.PlaybackQueue = QueueClear(@)], Nil)
    ELSE Return(pd, Nil)

Shuffle(pd, perm, keep) ==
    IF Size(pd.PlaybackQueue) > 1
    THEN Return([pd EXCEPT !.PlaybackQueue = QueueShuffle(@, perm, keep)], Nil)
    ELSE Return(pd, Nil)

\* gain is the grid index k of the float32 nearest to k/GridSteps
SetGain(pd, gain) ==
    LET vol == F32ToInt(F32Scale(F32OfGrid(gain)))
        s == MpvSet(pd.mpv, "volume", vol)
    IN Return([Issue(pd, "set", <<"volume", vol>>) EXCEPT !.mpv = s.mpv, !.Gain = gain],
              Nil)

Get(pd) == Return(pd, Nil)

Status(pd) == Return(pd, Nil)

(***************************************************************************)
(* The state: one device after NewSpeakerPlaybackDevice, its player, and   *)
(* what the last step issued and returned.                                 *)
(***************************************************************************)
VARIABLES
    PlaybackQueue,       \* pd.PlaybackQueue: [Items, Index]
    Gain,                \* pd.Gain, a grid index
    startTrackSwitcher,  \* pd.startTrackSwitcher has run
    mpv,                 \* the player behind pd.MpvConn
    calls,               \* player commands (set, call) issued by the last step
    lookups,             \* catalog lookups made by the last step
    last                 \* the last step: command, arguments, returned status and error

\* the track switcher of the device (trackSwitcherGoroutine), its service
\* context and the Start calls in flight
VARIABLES
    serviceCtx,          \* pd.serviceCtx: "live" or "done" (cancelled)
    switcher,            \* the goroutine: "none", "select" (in its select), "exited"
    spawned,             \* trackSwitcher goroutines started so far
    starting,            \* for each caller of Start, where its call is
    PlaybackDone         \* senders blocked on the unbuffered channel pd.PlaybackDone

switcherVars == <<serviceCtx, switcher, spawned, starting, PlaybackDone>>

devVars == <<PlaybackQueue, Gain, startTrackSwitcher, mpv, calls, lookups>>

\* the bootstrap of the players (package mpv): the configuration and the
\* search path, the once-guarded binary lookup, and one bootstrap per device
VARIABLES
    MPVPath,             \* conf.Server.MPVPath, "" when not configured
    installed,           \* where a player binary is found now: "path", "dot", "none"
    mpvOnce,             \* mpvOnce: "fresh", "running" or "done"
    mpvPath,             \* mpvPath
    mpvErr,              \* mpvErr
    lookPaths,           \* runs of the function handed to mpvOnce.Do so far
    resolved,            \* the (path, error) pairs mpvCommand has returned
    boots                \* for each device, its NewSpeakerPlaybackDevice call

bootVars == <<MPVPath, installed, mpvOnce, mpvPath, mpvErr, lookPaths, resolved, boots>>

\* one Executor with its subprocess, and who reads its output
VARIABLES
    exe

\* a Skip and a Remove in flight on the device at once
VARIABLES
    skipping,
    removing

\* a Position call in flight
VARIABLES
    positioning

procVars == <<bootVars, exe, skipping, removing, positioning>>

\* what is not part of the device record
restVars == <<serviceCtx, starting, PlaybackDone, procVars>>

vars == <<devVars, last, switcherVars, procVars>>

\* the device as the handlers see it, with empty logs
Dev ==
    [PlaybackQueue |-> PlaybackQueue, Gain |-> Gain,
     startTrackSwitcher |-> startTrackSwitcher, mpv |-> mpv,
     calls |-> <<>>, lookups |-> <<>>]

NoArgs == [ids |-> <<>>, index |-> 0, offset |-> 0, gain |-> 0]

\* the device after a handler returned r
Applied(op, args, r) ==
    /\ PlaybackQueue' = r.pd.PlaybackQueue
    /\ Gain' = r.pd.Gain
    /\ startTrackSwitcher' = r.pd.startTrackSwitcher
    /\ mpv' = r.pd.mpv
    /\ calls' = r.pd.calls
    /\ lookups' = r.pd.lookups
    /\ last' = [op |-> op, args |-> args, status |-> r.status, err |-> r.err]

\* faulty variant: the goroutine is started without the Once
StartTrackSwitcherGo ==
    switcher' = "select" /\ spawned' = spawned + 1

\* pd.startTrackSwitcher.Do(func() { go pd.trackSwitcherGoroutine() }): the
\* first call starts the goroutine, which enters its select
StartTrackSwitcherDo ==
    IF startTrackSwitcher THEN UNCHANGED <<switcher, spawned>>
    ELSE switcher' = "select" /\ spawned' = spawned + 1

\* the state after a handler returned r; only Start reaches the Once
Returned(op, args, r) ==
    /\ Applied(op, args, r)
    /\ IF op = "Start" THEN StartTrackSwitcherDo ELSE UNCHANGED <<switcher, spawned>>
    /\ UNCHANGED restVars

\* the callers of Start
MaxCallers == 2
Callers == 1 .. MaxCallers

\* no Start in flight, the context live, nobody sending on PlaybackDone
SwitcherInit ==
    /\ serviceCtx = "live"
    /\ switcher = "none"
    /\ spawned = 0
    /\ starting = [p \in Callers |-> "idle"]
    /\ PlaybackDone = 0

\* the arguments the commands are called with
IdLists == UNION {[1 .. n -> Ids] : n \in 0 .. MaxIds}
IndexArgs == -1 .. MaxQueue
Offsets == {0, 5}
Grid == 0 .. GridSteps

\* the player as the bootstrap leaves it: idle, nothing loaded
NewMpv(alive, pause) ==
    [alive |-> alive, pause |-> pause, volume |-> VolumeScale, loaded |-> "",
     timepos |-> 0]

\* NewSpeakerPlaybackDevice: Gain 1.0, a new queue; the player idles, its
\* pause property as the command template starts it
DevInit ==
    /\ PlaybackQueue = NewQueue
    /\ Gain = GridSteps
    /\ startTrackSwitcher = FALSE
    /\ \E p \in BOOLEAN : mpv = NewMpv(TRUE, p)
    /\ calls = <<>>
    /\ lookups = <<>>
    /\ last = [op |-> "New", args |-> NoArgs, status |-> ZeroStatus, err |-> Nil]

\* the devices of the process
MaxDevices == 2
Devices == 1 .. MaxDevices

\* a NewSpeakerPlaybackDevice call before its first step: where it is (pc),
\* whether it runs the function of mpvOnce, its subprocess and control
\* socket, the connection and error of OpenMpvAndConnection, the device and
\* the error the constructor hands to its caller
NewBoot ==
    [pc |-> "new", inOnce |-> FALSE, proc |-> "none", socket |-> FALSE,
     conn |-> Nil, err |-> Nil, device |-> "none", returned |-> Nil]

\* NewSpeakerPlaybackDevice not yet called: no lookup made, no subprocess
BootIdle ==
    /\ MPVPath = ""
    /\ installed = "path"
    /\ mpvOnce = "fresh"
    /\ mpvPath = ""
    /\ mpvErr = Nil
    /\ lookPaths = 0
    /\ resolved = {}
    /\ boots = [d \in Devices |-> NewBoot]

\* an Executor before start(ctx, args): no cmd, the io.Pipe not yet made
NewExecutor ==
    [pc |-> "new", proc |-> "none", exit |-> "none", killed |-> FALSE,
     stdout |-> 0, copier |-> "none", waiter |-> "none",
     out |-> "none", closeErr |-> Nil, closes |-> 0, cancelErr |-> Nil,
     reader |-> FALSE]

ExecIdle == exe = NewExecutor

RaceIdle == skipping = [pc |-> "idle"] /\ removing = [pc |-> "idle"]

PositionIdle == positioning = [pc |-> "idle"]

Init ==
    /\ DevInit
    /\ SwitcherInit
    /\ BootIdle
    /\ ExecIdle
    /\ RaceIdle
    /\ PositionIdle

CmdGet ==
    \E r \in {Get(Dev)} : Returned("Get", NoArgs, r)

CmdStatus ==
    \E r \in {Status(Dev)} : Returned("Status", NoArgs, r)

CmdSet(ids) ==
    /\ Len(ids) <= MaxQueue
    /\ \E r \in {Set(Dev, ids)} : Returned("Set", [NoArgs EXCEPT !.ids = ids], r)

CmdAdd(ids) ==
    /\ Len(PlaybackQueue.Items) + Len(ids) <= MaxQueue
    /\ \E r \in {Add(Dev, ids)} : Returned("Add", [NoArgs EXCEPT !.ids = ids], r)

\* the cursors SetIndex(index) may leave
SetIndexCursors(index) ==
    IF index > -1 /\ index < Len(PlaybackQueue.Items) THEN {index}
    ELSE Cursors(PlaybackQueue.Items)

\* the cursors Remove(index) may leave
RemoveCursors(index) ==
    IF index > -1 /\ index < Len(PlaybackQueue.Items)
    THEN Cursors(RemoveAt(PlaybackQueue.Items, index))
    ELSE {PlaybackQueue.Index}

CmdStart ==
    \E r \in {Start(Dev, c) : c \in SetIndexCursors(PlaybackQueue.Index)} :
        Returned("Start", NoArgs, r)

CmdStop ==
    \E r \in {Stop(Dev)} : Returned("Stop", NoArgs, r)

CmdSkip(index, offset) ==
    \E r \in {Skip(Dev, index, offset, c) : c \in SetIndexCursors(index)} :
        Returned("Skip", [NoArgs EXCEPT !.index = index, !.offset = offset], r)

CmdClear ==
    \E r \in {Clear(Dev)} : Returned("Clear", NoArgs, r)

CmdRemove(index) ==
    \E r \in {Remove(Dev, index, c) : c \in RemoveCursors(index)} :
        Returned("Remove", [NoArgs EXCEPT !.index = index], r)

CmdShuffle ==
    \E r \in {Shuffle(Dev, perm, keep) :
                  perm \in Perms(Len(PlaybackQueue.Items)), keep \in BOOLEAN} :
        Returned("Shuffle", NoArgs, r)

CmdSetGain(gain) ==
    \E r \in {SetGain(Dev, gain)} :
        Returned("SetGain", [NoArgs EXCEPT !.gain = gain], r)

\* the player subprocess exits: from now on every request fails, and the
\* properties it had are gone with it
MpvExit ==
    /\ mpv.alive
    /\ mpv' = NewMpv(FALSE, FALSE)
    /\ calls' = <<>>
    /\ lookups' = <<>>
    /\ last' = [op |-> "MpvExit", args |-> NoArgs, status |-> ZeroStatus, err |-> Nil]
    /\ UNCHANGED <<PlaybackQueue, Gain, startTrackSwitcher>>
    /\ UNCHANGED <<switcherVars, procVars>>

Next ==
    \/ CmdGet
    \/ CmdStatus
    \/ \E ids \in IdLists : CmdSet(ids)
    \/ \E ids \in IdLists : CmdAdd(ids)
    \/ CmdStart
    \/ CmdStop
    \/ \E index \in IndexArgs, offset \in Offsets : CmdSkip(index, offset)
    \/ CmdClear
    \/ \E index \in IndexArgs : CmdRemove(index)
    \/ CmdShuffle
    \/ MpvExit

Spec == Init /\ [][Next]_vars

\* The gain of the device, over the whole grid: SetGain touches Gain and the
\* player's volume only, and no transport command writes either.
\* SetGain does not read the gain it replaces, so the grid is walked from
\* the stored gain: its neighbours and the two ends.
NearGains == {Gain - 1, Gain + 1, 0, GridSteps} \cap Grid

NextGain ==
    \/ \E gain \in NearGains : CmdSetGain(gain)
    \/ CmdStatus
    \/ CmdGet
    \/ MpvExit

SpecGain == Init /\ [][NextGain]_vars

(***************************************************************************)
(* The track switcher.  Start calls of several callers run concurrently:   *)
(* each passes the Once, then does the rest of Start.  The goroutine waits *)
(* in its select for a value on PlaybackDone or for serviceCtx.Done().     *)
(***************************************************************************)
\* notifications a sender may have pending on PlaybackDone
MaxDone == 2

Step(op) == [op |-> op, args |-> NoArgs, status |-> ZeroStatus, err |-> Nil]

\* Start, up to and including startTrackSwitcher.Do
StartOnce(p) ==
    /\ starting[p] = "idle"
    /\ StartTrackSwitcherDo
    /\ startTrackSwitcher' = TRUE
    /\ starting' = [starting EXCEPT ![p] = "rest"]
    /\ calls' = <<>>
    /\ lookups' = <<>>
    /\ last' = Step("Start.Do")
    /\ UNCHANGED <<PlaybackQueue, Gain, mpv, serviceCtx, PlaybackDone, procVars>>

\* Start, from the queue test to its return
StartRest(p) ==
    /\ starting[p] = "rest"
    /\ \E r \in {Start(Dev, c) : c \in SetIndexCursors(PlaybackQueue.Index)} :
           Applied("Start", NoArgs, r)
    /\ starting' = [starting EXCEPT ![p] = "idle"]
    /\ UNCHANGED <<serviceCtx, switcher, spawned, PlaybackDone, procVars>>

\* the player's event source has a finished track to report and blocks
\* sending on PlaybackDone
DoneSend ==
    /\ PlaybackDone < MaxDone
    /\ PlaybackDone' = PlaybackDone + 1
    /\ calls' = <<>>
    /\ lookups' = <<>>
    /\ last' = Step("DoneSend")
    /\ UNCHANGED <<PlaybackQueue, Gain, startTrackSwitcher, mpv>>
    /\ UNCHANGED <<serviceCtx, switcher, spawned, starting, procVars>>

\* case <-pd.PlaybackDone: the value is received; the case has no statement
SwitcherPlaybackDone ==
    /\ switcher = "select"
    /\ PlaybackDone > 0
    /\ PlaybackDone' = PlaybackDone - 1
    /\ calls' = <<>>
    /\ lookups' = <<>>
    /\ last' = Step("PlaybackDone")
    /\ UNCHANGED <<PlaybackQueue, Gain, startTrackSwitcher, mpv>>
    /\ UNCHANGED <<serviceCtx, switcher, spawned, starting, procVars>>

\* faulty variant: the goroutine does not leave on Done
SwitcherStays ==
    /\ switcher = "select"
    /\ serviceCtx = "done"
    /\ last.op # "ServiceCtxDone"
    /\ calls' = <<>>
    /\ lookups' = <<>>
    /\ last' = Step("ServiceCtxDone")
    /\ UNCHANGED <<PlaybackQueue, Gain, startTrackSwitcher, mpv>>
    /\ UNCHANGED <<switcherVars, procVars>>

\* case <-pd.serviceCtx.Done(): return
SwitcherDone ==
    /\ switcher = "select"
    /\ serviceCtx = "done"
    /\ switcher' = "exited"
    /\ calls' = <<>>
    /\ lookups' = <<>>
    /\ last' = Step("ServiceCtxDone")
    /\ UNCHANGED <<PlaybackQueue, Gain, startTrackSwitcher, mpv>>
    /\ UNCHANGED <<serviceCtx, spawned, starting, PlaybackDone, procVars>>

\* the service context of the device is cancelled
Cancel ==
    /\ serviceCtx = "live"
    /\ serviceCtx' = "done"
    /\ calls' = <<>>
    /\ lookups' = <<>>
    /\ last' = Step("Cancel")
    /\ UNCHANGED <<PlaybackQueue, Gain, startTrackSwitcher, mpv>>
    /\ UNCHANGED <<switcher, spawned, starting, PlaybackDone, procVars>>

NextSwitcher ==
    \/ \E p \in Callers : StartOnce(p)
    \/ \E p \in Callers : StartRest(p)
    \/ \E id \in KnownIds : CmdAdd(<<id>>)
    \/ CmdStop
    \/ CmdClear
    \/ DoneSend
    \/ SwitcherPlaybackDone
    \/ SwitcherDone
    \/ Cancel
    \/ MpvExit

SpecSwitcher == Init /\ [][NextSwitcher]_vars

\* the select takes a ready case; the Done case, once ready, stays ready
SpecSwitcherFair == SpecSwitcher /\ WF_vars(SwitcherDone)

(***************************************************************************)
(* The bootstrap: NewSpeakerPlaybackDevice calls OpenMpvAndConnection,     *)
(* which resolves the player binary (mpvCommand, once per process), starts *)
(* the subprocess, waits for its control socket and opens the connection.  *)
(* The devices of the process are set up concurrently.                     *)
(***************************************************************************)
ErrDot == "cannot run executable found relative to current directory"
ErrNotFound == "executable file not found in $PATH"

\* exec.LookPath(file) with the search path as it is now
LookPath(file) ==
    IF file = "mpv"
    THEN IF installed = "path" THEN [path |-> "/usr/bin/mpv", err |-> Nil]
         ELSE IF installed = "dot" THEN [path |-> "mpv", err |-> ErrDot]
         ELSE [path |-> "", err |-> ErrNotFound]
    ELSE IF file = "./mpv"
    THEN IF installed = "dot" THEN [path |-> "./mpv", err |-> Nil]
         ELSE [path |-> "", err |-> ErrNotFound]
    ELSE IF installed = "conf" THEN [path |-> file, err |-> Nil]
         ELSE [path |-> "", err |-> ErrNotFound]

\* the function handed to mpvOnce.Do
MpvLookup ==
    IF MPVPath # "" THEN LookPath(MPVPath)
    ELSE LET r == LookPath("mpv")
         IN IF r.err = ErrDot THEN LookPath("./mpv") ELSE r

\* the calls of mpvCommand: by OpenMpvAndConnection, then by fixCmd
InMpvCommand(d) == boots[d].pc \in {"new", "fixCmd"}

\* a step of the bootstrap leaves the devices already made alone
BootStep ==
    UNCHANGED <<devVars, last, switcherVars, exe, skipping, removing, positioning>>

\* mpvOnce.Do: the first caller runs the function, the others wait for it
MpvCommandDo(d) ==
    /\ InMpvCommand(d)
    /\ mpvOnce = "fresh"
    /\ mpvOnce' = "running"
    /\ lookPaths' = lookPaths + 1
    /\ boots' = [boots EXCEPT ![d].inOnce = TRUE]
    /\ BootStep
    /\ UNCHANGED <<MPVPath, installed, mpvPath, mpvErr, resolved>>

\* the function of mpvOnce.Do sets mpvPath and mpvErr
MpvCommandLookup(d) ==
    /\ boots[d].inOnce
    /\ mpvPath' = MpvLookup.path
    /\ mpvErr' = MpvLookup.err
    /\ mpvOnce' = "done"
    /\ boots' = [boots EXCEPT ![d].inOnce = FALSE]
    /\ BootStep
    /\ UNCHANGED <<MPVPath, installed, lookPaths, resolved>>

\* faulty variant: every call looks the binary up again
MpvCommandFresh == MpvLookup

\* what a call of mpvCommand returns once Do has returned
MpvCommandResult == [path |-> mpvPath, err |-> mpvErr]

\* return mpvPath, mpvErr: OpenMpvAndConnection returns the error, fixCmd
\* drops it
MpvCommandReturn(d) ==
    /\ InMpvCommand(d)
    /\ mpvOnce = "done"
    /\ LET r == MpvCommandResult
       IN /\ resolved' = resolved \cup {r}
          /\ boots' = [boots EXCEPT ![d] =
                          IF @.pc = "fixCmd" THEN [@ EXCEPT !.pc = "start"]
                          ELSE IF r.err # Nil THEN [@ EXCEPT !.pc = "failed", !.err = r.err]
                          ELSE [@ EXCEPT !.pc = "fixCmd"]]
    /\ BootStep
    /\ UNCHANGED <<MPVPath, installed, mpvOnce, mpvPath, mpvErr, lookPaths>>

\* start(ctx, args): cmd.Start() starts the subprocess, or fails
ExecStart(d) ==
    /\ boots[d].pc = "start"
    /\ \E ok \in BOOLEAN :
          boots' = [boots EXCEPT ![d] =
                      IF ok THEN [@ EXCEPT !.pc = "waitForSocket", !.proc = "running"]
                      ELSE [@ EXCEPT !.pc = "failed", !.err = "starting cmd"]]
    /\ BootStep
    /\ UNCHANGED <<MPVPath, installed, mpvOnce, mpvPath, mpvErr, lookPaths, resolved>>

\* the player creates its control socket
ProcSocket(d) ==
    /\ boots[d].proc = "running"
    /\ ~boots[d].socket
    /\ boots' = [boots EXCEPT ![d].socket = TRUE]
    /\ BootStep
    /\ UNCHANGED <<MPVPath, installed, mpvOnce, mpvPath, mpvErr, lookPaths, resolved>>

\* the player subprocess exits
ProcExit(d) ==
    /\ boots[d].proc = "running"
    /\ boots' = [boots EXCEPT ![d].proc = "exited"]
    /\ BootStep
    /\ UNCHANGED <<MPVPath, installed, mpvOnce, mpvPath, mpvErr, lookPaths, resolved>>

\* waitForSocket: the socket is found, or the 3 seconds have passed
WaitForSocket(d) ==
    /\ boots[d].pc = "waitForSocket"
    /\ boots' = [boots EXCEPT ![d] =
                    IF @.socket THEN [@ EXCEPT !.pc = "open"]
                    ELSE [@ EXCEPT !.pc = "failed", !.err = "timeout reached: 3s"]]
    /\ BootStep
    /\ UNCHANGED <<MPVPath, installed, mpvOnce, mpvPath, mpvErr, lookPaths, resolved>>

\* conn.Open(): the player accepts the connection, or the dial fails
ConnOpen(d) ==
    /\ boots[d].pc = "open"
    /\ \E ok \in {boots[d].proc = "running", FALSE} :
          boots' = [boots EXCEPT ![d] =
                      IF ok THEN [@ EXCEPT !.pc = "connected", !.conn = "open"]
                      ELSE [@ EXCEPT !.pc = "failed", !.err = "dial unix: connection refused"]]
    /\ BootStep
    /\ UNCHANGED <<MPVPath, installed, mpvOnce, mpvPath, mpvErr, lookPaths, resolved>>

\* NewSpeakerPlaybackDevice: conn, err := OpenMpvAndConnection(...); _ = err;
\* the device is built around conn and returned
NewDevice(d) ==
    /\ boots[d].pc \in {"connected", "failed"}
    /\ boots' = [boots EXCEPT ![d].pc = "returned",
                              ![d].device = [MpvConn |-> boots[d].conn],
                              ![d].returned = Nil]
    /\ BootStep
    /\ UNCHANGED <<MPVPath, installed, mpvOnce, mpvPath, mpvErr, lookPaths, resolved>>

\* a player binary is installed, moved or removed
Install(where) ==
    /\ installed # where
    /\ installed' = where
    /\ BootStep
    /\ UNCHANGED <<MPVPath, mpvOnce, mpvPath, mpvErr, lookPaths, resolved, boots>>

\* the process starts with some configuration and some search path
BootInit ==
    /\ MPVPath \in {"", "/opt/mpv/bin/mpv"}
    /\ installed \in {"path", "dot", "conf", "none"}
    /\ mpvOnce = "fresh"
    /\ mpvPath = ""
    /\ mpvErr = Nil
    /\ lookPaths = 0
    /\ resolved = {}
    /\ boots = [d \in Devices |-> NewBoot]

InitBoot ==
    /\ DevInit
    /\ SwitcherInit
    /\ BootInit
    /\ ExecIdle
    /\ RaceIdle
    /\ PositionIdle

NextBoot ==
    \/ \E d \in Devices : MpvCommandDo(d)
    \/ \E d \in Devices : MpvCommandLookup(d)
    \/ \E d \in Devices : MpvCommandReturn(d)
    \/ \E d \in Devices : ExecStart(d)
    \/ \E d \in Devices : ProcSocket(d)
    \/ \E d \in Devices : ProcExit(d)
    \/ \E d \in Devices : WaitForSocket(d)
    \/ \E d \in Devices : ConnOpen(d)
    \/ \E d \in Devices : NewDevice(d)
    \/ \E where \in {"path", "dot", "conf", "none"} : Install(where)
    \/ Cancel

SpecBoot == InitBoot /\ [][NextBoot]_vars

(***************************************************************************)
(* A Skip and a Remove called on the device at the same time.  The device  *)
(* takes no lock: the two calls interleave at each access to the queue and *)
(* to the player.  A method of the queue is taken as one step.             *)
(***************************************************************************)
RaceIdleNow == skipping.pc = "idle" /\ removing.pc = "idle"

RaceStep == UNCHANGED <<Gain, startTrackSwitcher, calls, lookups, last, switcherVars,
                        bootVars, exe, positioning>>

\* the two calls are made; entry is the device as they find it
RaceCall(index, offset, rindex) ==
    /\ RaceIdleNow
    /\ skipping' = [pc |-> "test", index |-> index, offset |-> offset, track |-> None,
                    reported |-> None, status |-> ZeroStatus, entry |-> Dev]
    /\ removing' = [pc |-> "isPlaying", index |-> rindex, status |-> ZeroStatus]
    /\ calls' = <<>>
    /\ lookups' = <<>>
    /\ last' = Step("Skip, Remove")
    /\ UNCHANGED <<PlaybackQueue, Gain, startTrackSwitcher, mpv, switcherVars,
                   bootVars, exe, positioning>>

\* Skip: if index != pd.PlaybackQueue.Index
SkipTest ==
    /\ skipping.pc = "test"
    /\ skipping' = [skipping EXCEPT !.pc = IF skipping.index # PlaybackQueue.Index
                                           THEN "SetIndex" ELSE "seek"]
    /\ UNCHANGED <<PlaybackQueue, mpv, removing>>
    /\ RaceStep

\* switchActiveTrackByIndex: pd.PlaybackQueue.SetIndex(index)
SkipSetIndex ==
    /\ skipping.pc = "SetIndex"
    /\ \E c \in SetIndexCursors(skipping.index) :
          PlaybackQueue' = SetIndex(PlaybackQueue, skipping.index, c)
    /\ skipping' = [skipping EXCEPT !.pc = "Current"]
    /\ UNCHANGED <<mpv, removing>>
    /\ RaceStep

\* switchActiveTrackByIndex: currentTrack := pd.PlaybackQueue.Current()
SkipCurrent ==
    /\ skipping.pc = "Current"
    /\ skipping' = [skipping EXCEPT !.track = Current(PlaybackQueue),
                                    !.pc = IF Current(PlaybackQueue) = None
                                           THEN "getStatus" ELSE "loadfile"]
    /\ UNCHANGED <<PlaybackQueue, mpv, removing>>
    /\ RaceStep

\* switchActiveTrackByIndex: pd.MpvConn.Call("loadfile", currentTrack.Path, ...)
SkipLoadfile ==
    /\ skipping.pc = "loadfile"
    /\ mpv' = MpvLoadfile(mpv, skipping.track.Path, StartOffset)
    /\ skipping' = [skipping EXCEPT !.pc = "getStatus"]
    /\ UNCHANGED <<PlaybackQueue, removing>>
    /\ RaceStep

\* Skip: pd.MpvConn.Call("seek", offset)
SkipSeek ==
    /\ skipping.pc = "seek"
    /\ mpv' = MpvSeek(mpv, skipping.offset)
    /\ skipping' = [skipping EXCEPT !.pc = "getStatus"]
    /\ UNCHANGED <<PlaybackQueue, removing>>
    /\ RaceStep

\* Skip: return pd.getStatus(), nil; reported is the track at the index
\* the status names
SkipReturn ==
    /\ skipping.pc = "getStatus"
    /\ skipping' = [skipping EXCEPT !.pc = "done", !.status = getStatus(Dev),
                                    !.reported = Current(PlaybackQueue)]
    /\ UNCHANGED <<PlaybackQueue, mpv, removing>>
    /\ RaceStep

\* Remove: if pd.isPlaying() && pd.PlaybackQueue.Index == index
RemoveTest ==
    /\ removing.pc = "isPlaying"
    /\ removing' = [removing EXCEPT !.pc = IF isPlaying(Dev) /\ PlaybackQueue.Index = removing.index
                                           THEN "Stop" ELSE "range"]
    /\ UNCHANGED <<PlaybackQueue, mpv, skipping>>
    /\ RaceStep

\* Remove: pd.Stop(ctx)
RemoveStop ==
    /\ removing.pc = "Stop"
    /\ mpv' = Stop(Dev).pd.mpv
    /\ removing' = [removing EXCEPT !.pc = "range"]
    /\ UNCHANGED <<PlaybackQueue, skipping>>
    /\ RaceStep

\* Remove: if index > -1 && index < pd.PlaybackQueue.Size()
RemoveRange ==
    /\ removing.pc = "range"
    /\ removing' = [removing EXCEPT !.pc = IF removing.index > -1
                                              /\ removing.index < Size(PlaybackQueue)
                                           THEN "Remove" ELSE "getStatus"]
    /\ UNCHANGED <<PlaybackQueue, mpv, skipping>>
    /\ RaceStep

\* Remove: pd.PlaybackQueue.Remove(index)
RemoveQueueRemove ==
    /\ removing.pc = "Remove"
    /\ \E c \in RemoveCursors(removing.index) :
          PlaybackQueue' = QueueRemove(PlaybackQueue, removing.index, c)
    /\ removing' = [removing EXCEPT !.pc = "getStatus"]
    /\ UNCHANGED <<mpv, skipping>>
    /\ RaceStep

\* Remove: return pd.getStatus(), nil
RemoveReturn ==
    /\ removing.pc = "getStatus"
    /\ removing' = [removing EXCEPT !.pc = "done", !.status = getStatus(Dev)]
    /\ UNCHANGED <<PlaybackQueue, mpv, skipping>>
    /\ RaceStep

NextRace ==
    \/ RaceIdleNow /\ \E id \in KnownIds : CmdAdd(<<id>>)
    \/ RaceIdleNow /\ CmdStart
    \/ RaceIdleNow /\ \E index \in IndexArgs : CmdSkip(index, 0)
    \/ \E index \in IndexArgs, rindex \in IndexArgs : RaceCall(index, 5, rindex)
    \/ SkipTest
    \/ SkipSetIndex
    \/ SkipCurrent
    \/ SkipLoadfile
    \/ SkipSeek
    \/ SkipReturn
    \/ RemoveTest
    \/ RemoveStop
    \/ RemoveRange
    \/ RemoveQueueRemove
    \/ RemoveReturn

SpecRace == Init /\ [][NextRace]_vars

(***************************************************************************)
(* Position, pass by pass, while the player goes on: a track gets loaded,  *)
(* plays, ends, or the player exits between two queries.                   *)
(***************************************************************************)
\* milliseconds the player advances between two looks at it
Tick == 700

PositionStep ==
    UNCHANGED <<PlaybackQueue, Gain, startTrackSwitcher, calls, lookups, last,
                switcherVars, bootVars, exe, skipping, removing>>

\* Position is called
PositionCall ==
    /\ positioning.pc \in {"idle", "done"}
    /\ positioning' = [pc |-> "Get", retryCount |-> 0, queries |-> 0, slept |-> <<>>,
                       reply |-> [value |-> Nil, type |-> "nil", err |-> Nil], pos |-> 0]
    /\ UNCHANGED mpv
    /\ PositionStep

\* what the player answers to Get("time-pos") now: its position, or
\* (garbled) a value that is no number
TimePosReply(garbled) ==
    IF garbled THEN [value |-> "n/a", type |-> "string", err |-> Nil]
    ELSE MpvGet(mpv, "time-pos")

\* one pass of the loop: the query, the tests on its answer, the sleep
PositionGet(r) ==
    /\ positioning.pc = "Get"
    /\ LET t == PositionTry(r, positioning.retryCount)
       IN positioning' =
              [pc |-> IF t.done THEN "done" ELSE "Get",
               retryCount |-> t.retryCount,
               queries |-> positioning.queries + 1,
               slept |-> IF t.sleep > 0 THEN Append(positioning.slept, t.sleep)
                         ELSE positioning.slept,
               reply |-> r,
               pos |-> t.pos]
    /\ UNCHANGED mpv
    /\ PositionStep

PositionPass == \E garbled \in BOOLEAN : PositionGet(TimePosReply(garbled))

\* the player has loaded a track
PlayerLoaded(id) ==
    /\ mpv.alive
    /\ mpv.loaded = ""
    /\ mpv' = MpvLoadfile(mpv, PathOf(id), StartOffset)
    /\ UNCHANGED positioning
    /\ PositionStep

\* the player plays on; at the end of the track it idles again
PlayerPlays ==
    /\ mpv.alive
    /\ mpv.loaded # ""
    /\ mpv' = IF mpv.timepos + Tick >= Millis(TrackLen)
              THEN [mpv EXCEPT !.loaded = "", !.timepos = 0]
              ELSE [mpv EXCEPT !.timepos = @ + Tick]
    /\ UNCHANGED positioning
    /\ PositionStep

\* the player exits while Position runs
PlayerExits ==
    /\ mpv.alive
    /\ mpv' = NewMpv(FALSE, FALSE)
    /\ UNCHANGED positioning
    /\ PositionStep

NextPosition ==
    \/ PositionCall
    \/ PositionPass
    \/ \E id \in KnownIds : PlayerLoaded(id)
    \/ PlayerPlays
    \/ PlayerExits

SpecPosition == Init /\ [][NextPosition]_vars

\* a Position call in its loop gets its next pass
SpecPositionFair == SpecPosition /\ WF_vars(PositionPass)

(***************************************************************************)
(* The Executor: start(ctx, args) makes an io.Pipe, starts the subprocess  *)
(* with the pipe's writer as its Stdout and runs wait() in a goroutine.    *)
(* Stdout being no file, exec copies the subprocess's output into the      *)
(* writer in a goroutine of its own, and cmd.Wait() returns when the       *)
(* subprocess has exited and that copy has ended.  A Write on an io.Pipe   *)
(* returns when a Read has taken the data or the pipe is closed.           *)
(***************************************************************************)
\* chunks of output the operating system holds between subprocess and copy
MaxOut == 2

ExitKinds == {"clean", "nonzero", "waiterr"}

ExecStep ==
    UNCHANGED <<devVars, last, switcherVars, bootVars, skipping, removing, positioning>>

\* start: io.Pipe(), j.start(ctx), go j.wait(); or cmd.Start() fails
ExecutorStart(ok, reader) ==
    /\ exe.pc = "new"
    /\ exe' = IF ok
              THEN [exe EXCEPT !.pc = "started", !.proc = "running", !.copier = "read",
                               !.waiter = "Wait", !.out = "open", !.reader = reader]
              ELSE [exe EXCEPT !.pc = "failed"]
    /\ ExecStep

\* the subprocess writes to its standard output
ProcWrites ==
    /\ exe.proc = "running"
    /\ exe.stdout < MaxOut
    /\ exe' = [exe EXCEPT !.stdout = @ + 1]
    /\ ExecStep

\* the subprocess exits: with status 0, with another status or by a signal,
\* or so that Wait reports an error of its own; a killed one does not exit
\* cleanly
ProcExits(kind) ==
    /\ exe.proc = "running"
    /\ exe.killed => kind # "clean"
    /\ exe' = [exe EXCEPT !.proc = "exited", !.exit = kind]
    /\ ExecStep

\* the copy takes output of the subprocess and calls j.out.Write
CopierReads ==
    /\ exe.copier = "read"
    /\ exe.stdout > 0
    /\ exe' = [exe EXCEPT !.stdout = @ - 1, !.copier = "Write"]
    /\ ExecStep

\* the copy finds the end of the output of a subprocess that has exited
CopierEnds ==
    /\ exe.copier = "read"
    /\ exe.stdout = 0
    /\ exe.proc = "exited"
    /\ exe' = [exe EXCEPT !.copier = "done"]
    /\ ExecStep

\* a Read on the Executor's PipeReader takes what the copy writes
ReaderReads ==
    /\ exe.reader
    /\ exe.copier = "Write"
    /\ exe' = [exe EXCEPT !.copier = "read"]
    /\ ExecStep

\* what wait() closes the stream with
CloseError(kind) ==
    IF kind = "clean" THEN Nil
    ELSE IF kind = "nonzero" THEN "exited with non-zero status code"
    ELSE "waiting cmd"

\* wait: cmd.Wait() has returned, the stream is closed
ExecutorWait ==
    /\ exe.waiter = "Wait"
    /\ exe.proc = "exited"
    /\ exe.copier = "done"
    /\ exe' = [exe EXCEPT !.waiter = "returned", !.out = "closed",
                          !.closeErr = CloseError(exe.exit), !.closes = @ + 1]
    /\ ExecStep

\* Cancel: j.cmd.Cancel() kills the subprocess; without a cmd it is an error
ExecutorCancel ==
    /\ ~exe.killed
    /\ exe.cancelErr = Nil
    /\ exe' = IF exe.pc = "started"
              THEN [exe EXCEPT !.killed = TRUE]
              ELSE [exe EXCEPT !.cancelErr = "there is non command to cancel"]
    /\ ExecStep

NextExec ==
    \/ \E ok \in BOOLEAN, reader \in BOOLEAN : ExecutorStart(ok, reader)
    \/ ProcWrites
    \/ \E kind \in ExitKinds : ProcExits(kind)
    \/ CopierReads
    \/ CopierEnds
    \/ ReaderReads
    \/ ExecutorWait
    \/ ExecutorCancel

SpecExec == Init /\ [][NextExec]_vars

\* the goroutines of the Executor run when they can; a killed subprocess
\* exits; nobody is bound to read the stream
SpecExecFair ==
    /\ SpecExec
    /\ WF_vars(CopierReads)
    /\ WF_vars(CopierEnds)
    /\ WF_vars(ExecutorWait)

(***************************************************************************)
(* The claims.                                                             *)
(***************************************************************************)
Items == PlaybackQueue.Items
Index == PlaybackQueue.Index

\* the positions of a sequence of items, zero-based
Positions(items) == 0 .. (Len(items) - 1)

AllResolve(ids) == \A i \in 1 .. Len(ids) : ids[i] \in KnownIds

\* the tracks the catalog gives for ids
TracksOf(ids) == [i \in 1 .. Len(ids) |-> GetMediaFile(ids[i]).mf]

Loadfile(track) ==
    [name |-> "loadfile", args |-> <<track.Path, "replace", LoadfileIndex, StartOffset>>]

Seek(offset) == [name |-> "seek", args |-> <<offset>>]

SetProperty(prop, value) == [name |-> "set", args |-> <<prop, value>>]

C3_AddAppends ==
    [][last'.op = "Add"
         => /\ Len(Items') >= Len(Items)
            /\ AllResolve(last'.args.ids)
                 => /\ Items' = Items \o TracksOf(last'.args.ids)
                    /\ Len(Items') = Len(Items) + Len(last'.args.ids)]_vars

\* an Add of two ids behind a track already queued
C3_Witness ==
    /\ last.op = "Add"
    /\ last.err = Nil
    /\ Len(last.args.ids) = 2
    /\ Len(Items) > 2
    /\ SubSeq(Items, Len(Items) - 1, Len(Items)) = TracksOf(last.args.ids)

\* the position in ids of the first id the catalog cannot resolve
FirstUnknown(ids) ==
    CHOOSE i \in 1 .. Len(ids) :
        /\ ids[i] \notin KnownIds
        /\ \A j \in 1 .. (i - 1) : ids[j] \in KnownIds

\* C4: an Add that meets an id the catalog cannot resolve returns that
\* error, looks up no id behind the failing one and appends nothing: queue
\* and cursor are as before.
C4_AddAborts ==
    [][last'.op = "Add" /\ ~AllResolve(last'.args.ids)
         => /\ last'.err = GetMediaFile(last'.args.ids[FirstUnknown(last'.args.ids)]).err
            /\ last'.err # Nil
            /\ lookups' = SubSeq(last'.args.ids, 1, FirstUnknown(last'.args.ids))
            /\ PlaybackQueue' = PlaybackQueue]_vars

\* an Add of a known id, then an unknown one, to a queue that holds tracks
C4_Witness ==
    /\ last.op = "Add"
    /\ last.args.ids = <<"a", "x">>
    /\ last.err # Nil
    /\ lookups = <<"a", "x">>
    /\ Items # <<>>

\* C5: Skip(i, offset) to a position i of the queue other than the cursor
\* makes i the cursor and issues one loadfile (replace) for the track at i
\* and nothing else: no seek, and the track starts at the fixed start
\* offset whatever offset is.
C5_SkipSwitches ==
    [][(/\ last'.op = "Skip"
        /\ last'.args.index \in Positions(Items)
        /\ last'.args.index # Index)
         => /\ Index' = last'.args.index
            /\ Items' = Items
            /\ calls' = <<Loadfile(Items[last'.args.index + 1])>>
            /\ mpv.alive => /\ mpv'.loaded = Items[last'.args.index + 1].Path
                            /\ mpv'.timepos = Millis(StartOffset)
            /\ last'.status.CurrentIndex = last'.args.index]_vars

\* a Skip with an offset that switched to the third track
C5_Witness ==
    /\ last.op = "Skip"
    /\ last.args.index = 2
    /\ last.args.offset = 5
    /\ Index = 2
    /\ Len(Items) = 3
    /\ calls = <<Loadfile(Items[3])>>

\* C6: Skip(index, offset) with index the cursor issues one seek with that
\* offset and no loadfile, and leaves the queue and its cursor as they
\* were; so does a Skip(i, k) that follows the Skip that switched to i.
C6_SkipSeeks ==
    [][last'.op = "Skip" /\ last'.args.index = Index
         => /\ calls' = <<Seek(last'.args.offset)>>
            /\ PlaybackQueue' = PlaybackQueue]_vars

\* Skip(2, 5) on the third track, loaded by a switch and sought once since
C6_Witness ==
    /\ last.op = "Skip"
    /\ last.args.index = 2
    /\ last.args.offset = 5
    /\ Index = 2
    /\ calls = <<Seek(5)>>
    /\ mpv.loaded = Items[3].Path
    /\ mpv.timepos = Millis(StartOffset + 5)

\* C7: Remove(i) with i a position of the queue removes the element at i
\* and keeps the order of the others; with i no position of the queue it
\* leaves the queue as it is and returns an index-range error.
C7_RemoveClaim ==
    [][last'.op = "Remove"
         => IF last'.args.index \in Positions(Items)
            THEN Items' = RemoveAt(Items, last'.args.index)
            ELSE PlaybackQueue' = PlaybackQueue /\ last'.err # Nil]_vars

\* number of positions of items that hold track t
Count(items, t) == Cardinality({i \in 1 .. Len(items) : items[i] = t})

SameMultiset(a, b) ==
    \A i \in 1 .. Len(a) : Count(a, a[i]) = Count(b, a[i])

\* C8: Shuffle changes nothing of a queue of size 0 or 1; of a longer
\* queue it keeps the length and the multiset of tracks.
C8_ShufflePermutes ==
    [][last'.op = "Shuffle"
         => IF Len(Items) <= 1
            THEN PlaybackQueue' = PlaybackQueue
            ELSE /\ Len(Items') = Len(Items)
                 /\ SameMultiset(Items, Items')
                 /\ SameMultiset(Items', Items)]_vars

\* a Shuffle of three tracks, not all the same
C8_Witness ==
    /\ last.op = "Shuffle"
    /\ Len(Items) = 3
    /\ Items[1] # Items[2]

\* round(100 * k / GridSteps), halves away from zero
RoundPercent(k) == (2 * VolumeScale * k + GridSteps) \div (2 * GridSteps)

\* C9: SetGain(g), g on the grid in [0,1], issues a volume set of
\* round(g * 100) and stores g as the gain later status calls report,
\* whether or not the player took the volume.
C9_SetGainClaim ==
    last.op = "SetGain"
        => /\ calls = <<SetProperty("volume", RoundPercent(last.args.gain))>>
           /\ Gain = last.args.gain
           /\ last.status.Gain = last.args.gain

\* C10: with a player that answers, Start on a queue that holds tracks
\* loads the track at the cursor, which stays, and sets pause to false, so
\* the device plays; Start on an empty queue loads nothing and leaves
\* pause; Stop sets pause to true, so the device is stopped.  In every
\* state the device is stopped exactly when pause is true.
C10_StartStop ==
    /\ [](mpv.alive => (~isPlaying(Dev) <=> mpv.pause))
    /\ [](mpv.alive /\ last.op # "New" /\ last.err = Nil
            => (~last.status.Playing <=> mpv.pause))
    /\ [][mpv'.alive
            => /\ last'.op = "Start" /\ Items # <<>>
                 => /\ PlaybackQueue' = PlaybackQueue
                    /\ calls' = <<Loadfile(Items[Index + 1]),
                                  SetProperty("pause", FALSE)>>
                    /\ mpv'.loaded = Items[Index + 1].Path
                    /\ mpv'.pause = FALSE
                    /\ last'.status.Playing
               /\ last'.op = "Start" /\ Items = <<>>
                 => /\ calls' = <<>>
                    /\ mpv'.pause = mpv.pause
                    /\ mpv'.loaded = mpv.loaded
               /\ last'.op = "Stop"
                 => /\ mpv'.pause = TRUE
                    /\ ~last'.status.Playing]_vars

\* a Start that loaded the second track of the queue and plays it
C10_Witness ==
    /\ last.op = "Start"
    /\ mpv.alive
    /\ Index = 1
    /\ calls = <<Loadfile(Items[2]), SetProperty("pause", FALSE)>>
    /\ ~mpv.pause
    /\ last.status.Playing

C12_AutoAdvance ==
    [][last'.op = "PlaybackDone"
         => IF Index < Len(Items) - 1
            THEN /\ Index' = Index + 1
                 /\ Items' = Items
                 /\ calls' = <<Loadfile(Items[Index + 2]), SetProperty("pause", FALSE)>>
            ELSE Index' = Index]_vars

\* C13: once serviceCtx is cancelled, a track switcher in its select leaves
\* it for good, whatever is pending on PlaybackDone; the step that sees the
\* cancellation touches neither queue nor player, and none follows it.
C13_SwitcherExits ==
    /\ (serviceCtx = "done" /\ switcher = "select") ~> (switcher = "exited")
    /\ [][last'.op = "ServiceCtxDone"
            => /\ switcher' = "exited"
               /\ PlaybackQueue' = PlaybackQueue
               /\ mpv' = mpv
               /\ calls' = <<>>]_vars
    /\ [][switcher = "exited"
            => /\ switcher' = "exited"
               /\ last'.op \notin {"PlaybackDone", "ServiceCtxDone"}]_vars

\* the track switcher has left while a notification was pending
C13_Witness ==
    /\ last.op = "ServiceCtxDone"
    /\ switcher = "exited"
    /\ PlaybackDone > 0
    /\ Items # <<>>

\* C14: when OpenMpvAndConnection fails at any step (the binary is not
\* resolved, the subprocess does not start, the socket does not appear in
\* time, the connection does not open), the constructor fails: it hands
\* that error to its caller and makes neither a connection nor a device.
C14_BootFailureFails ==
    \A d \in Devices :
        boots[d].pc = "returned" /\ boots[d].err # Nil
            => /\ boots[d].returned = boots[d].err
               /\ boots[d].conn = Nil
               /\ boots[d].device = "none"

\* C17: the function of mpvOnce.Do runs at most once in the process, also
\* with several bootstraps calling mpvCommand at once; every call returns
\* the same (path, error) pair, and what was cached stays, a failure too.
C17_ResolveOnce ==
    /\ [](lookPaths <= 1)
    /\ [](Cardinality(resolved) <= 1)
    /\ [](mpvOnce = "done" => resolved \subseteq {[path |-> mpvPath, err |-> mpvErr]})
    /\ [][mpvOnce = "done"
            => mpvOnce' = "done" /\ mpvPath' = mpvPath /\ mpvErr' = mpvErr]_vars

\* every bootstrap has its answer, a failure, though a binary is on the
\* search path by now
C17_Witness ==
    /\ \A d \in Devices : boots[d].pc = "returned" /\ boots[d].err = ErrNotFound
    /\ resolved = {[path |-> "", err |-> ErrNotFound]}
    /\ MpvLookup.err = Nil
    /\ lookPaths = 1

\* C20: when OpenMpvAndConnection has returned an error after it started
\* the subprocess, that subprocess does not run any more, as long as the
\* context is not cancelled.
C20_NoOrphanPlayer ==
    \A d \in Devices :
        (/\ boots[d].pc \in {"failed", "returned"}
         /\ boots[d].err # Nil
         /\ serviceCtx = "live")
            => boots[d].proc # "running"

\* what the claim compares: the queue, its cursor and the loaded track
Outcome(pd) == <<pd.PlaybackQueue.Items, pd.PlaybackQueue.Index, pd.mpv.loaded>>

\* the cursors SetIndex(i) and Remove(i) may leave on queue q
CursorsAfterSetIndex(q, i) ==
    IF i > -1 /\ i < Len(q.Items) THEN {i} ELSE Cursors(q.Items)

CursorsAfterRemove(q, i) ==
    IF i > -1 /\ i < Len(q.Items) THEN Cursors(RemoveAt(q.Items, i)) ELSE {q.Index}

\* the outcomes of the two calls made one after the other
SkipThenRemove(pd, i, o, j) ==
    UNION {{Outcome(Remove(s.pd, j, c2).pd) :
                c2 \in CursorsAfterRemove(s.pd.PlaybackQueue, j)} :
           s \in {Skip(pd, i, o, c1) : c1 \in CursorsAfterSetIndex(pd.PlaybackQueue, i)}}

RemoveThenSkip(pd, i, o, j) ==
    UNION {{Outcome(Skip(r.pd, i, o, c2).pd) :
                c2 \in CursorsAfterSetIndex(r.pd.PlaybackQueue, i)} :
           r \in {Remove(pd, j, c1) : c1 \in CursorsAfterRemove(pd.PlaybackQueue, j)}}

\* C15: a Skip(i, offset) and a Remove(j) running at the same time end, in
\* every interleaving, with a queue, a cursor and a loaded track that one
\* of the two orders of the calls gives, and the track Skip loaded is the
\* track at the index its status reports.
C15_Serialized ==
    skipping.pc = "done" /\ removing.pc = "done"
        => /\ Outcome(Dev) \in
                  SkipThenRemove(skipping.entry, skipping.index, skipping.offset,
                                 removing.index)
                  \cup RemoveThenSkip(skipping.entry, skipping.index, skipping.offset,
                                      removing.index)
           /\ skipping.track # None => skipping.reported = skipping.track

\* 1, 2, ... n
UpTo(n) == [k \in 1 .. n |-> k]

\* C16: Position always returns.  While the player answers "property
\* unavailable" it queries again, at most MaxRetries times (MaxRetries + 1
\* queries), sleeping k ms before the k-th retry, and returns 0 after
\* that; any other error and any value that is no number give 0 at once;
\* a number gives its whole seconds.
C16_PositionTerminates ==
    /\ (positioning.pc = "Get") ~> (positioning.pc = "done")
    /\ [](positioning.pc \in {"Get", "done"}
            => /\ positioning.queries <= MaxRetries + 1
               /\ positioning.slept
                    = UpTo(IF positioning.retryCount > MaxRetries THEN MaxRetries
                           ELSE positioning.retryCount)
               /\ positioning.pc = "Get" => positioning.queries = positioning.retryCount)
    /\ [](positioning.pc = "done"
            => IF positioning.reply.err = "mpv error: property unavailable"
               THEN /\ positioning.pos = 0
                    /\ positioning.queries = MaxRetries + 1
                    /\ positioning.slept = UpTo(MaxRetries)
               ELSE /\ positioning.queries = positioning.retryCount + 1
                    /\ positioning.pos
                         = IF positioning.reply.err # Nil THEN 0
                           ELSE IF positioning.reply.type # "float64" THEN 0
                           ELSE positioning.reply.value \div 1000)

\* Position gave up after the last retry
C16_Witness ==
    /\ positioning.pc = "done"
    /\ positioning.reply.err = "mpv error: property unavailable"
    /\ positioning.queries = MaxRetries + 1
    /\ positioning.slept = UpTo(MaxRetries)
    /\ positioning.pos = 0

\* C18: after start has succeeded, once the subprocess has exited the
\* output stream gets closed, once, and not before the exit: without error
\* after a clean exit, with the exit-status error after a non-zero exit,
\* with the wrapped Wait error otherwise; also when nobody reads the stream.
C18_StreamClosedOnExit ==
    /\ (exe.proc = "exited") ~> (exe.out = "closed")
    /\ [](exe.closes <= 1)
    /\ [](exe.out = "closed"
            => /\ exe.proc = "exited"
               /\ exe.closes = 1
               /\ exe.closeErr = CloseError(exe.exit))

\* the transport commands, each returning a DeviceStatus
Commands ==
    {"Get", "Status", "Set", "Add", "Start", "Stop", "Skip", "Clear", "Remove",
     "Shuffle", "SetGain"}

\* C19: Status and Get leave the queue, its cursor, the gain and the
\* player's pause property as they are.  The DeviceStatus every command
\* returns is made when it returns: CurrentIndex is the cursor, Playing the
\* negation of the pause property (false when the query fails), Gain the
\* gain of the device.
C19_StatusFrame ==
    /\ [][last'.op \in {"Status", "Get"}
            => /\ PlaybackQueue' = PlaybackQueue
               /\ Gain' = Gain
               /\ mpv' = mpv]_vars
    /\ [](last.op \in Commands
            => /\ last.status.CurrentIndex = Index
               /\ last.status.Playing = (mpv.alive /\ ~mpv.pause)
               /\ last.status.Gain = Gain)

====
